---- MODULE Spec2Model ----
(***************************************************************************)
(* A model of the CameraPlayBlast panel (CameraPlayblast.py): the list of  *)
(* scene cameras, the synchronisation of the list selection with the host  *)
(* selection, and the batch playblast with its three precondition checks.  *)
(*                                                                         *)
(* Strings are sequences of tokens.  The tokens ":" and "." are the        *)
(* separators the code splits on, and "Shape" is the substring the code    *)
(* replaces; every other token is a run of characters holding none of      *)
(* them.  A path is a sequence of components, each component a string.     *)
(***************************************************************************)
EXTENDS Naturals, Sequences, FiniteSets

VARIABLES
    sceneCameras,   \* cm.ls(type="camera"): the camera nodes, in the host's order
    sceneName,      \* cm.file(query=True, sceneName=True, shortName=True)
    filePathText,   \* file_path_le.text(), a path
    listItems,      \* the texts of the items of connection_lwg
    listSel,        \* the selected rows of connection_lwg, in selectedItems() order
    hostSel,        \* the host's active selection
    activeView,     \* the camera the host's view looks through
    dirs,           \* the directories of the filesystem (absolute paths)
    files,          \* the video files: records [path, source]
    pc,             \* "idle", "loop" (inside the for loop), "ended"
    queue,          \* the cameras the for loop of playblast has still to visit
    playblastDir,   \* playblast_dir of the running playblast
    run,            \* what the running playblast has done so far (history)
    listShown,      \* history: show_connections has filled the list
    panelSynced     \* history: the last change of the host selection was the panel's

vars == <<sceneCameras, sceneName, filePathText, listItems, listSel, hostSel,
          activeView, dirs, files, pc, queue, playblastDir, run, listShown,
          panelSynced>>

-----------------------------------------------------------------------------
(* Bounds                                                                  *)

\* the longest camera enumeration of a scene
MaxCams == 2

-----------------------------------------------------------------------------
(* Strings and paths                                                       *)

Range(s) == {s[i] : i \in 1..Len(s)}

Max(S) == CHOOSE m \in S : \A x \in S : x <= m

Min(S) == CHOOSE m \in S : \A x \in S : m <= x

Positions(s, t) == {i \in 1..Len(s) : s[i] = t}

\* s.split(":")[-1]
SplitColonLast(s) ==
    IF Positions(s, ":") = {} THEN s
    ELSE SubSeq(s, Max(Positions(s, ":")) + 1, Len(s))

\* s.split(".")[0]
SplitDotFirst(s) ==
    IF Positions(s, ".") = {} THEN s
    ELSE SubSeq(s, 1, Min(Positions(s, ".")) - 1)

\* s.replace("Shape", ""): every occurrence goes
ReplaceShape(s) == SelectSeq(s, LAMBDA t : t # "Shape")

\* the elements of s, each once, in the order of their first occurrence
Dedup(s) ==
    LET first == {i \in 1..Len(s) : \A j \in 1..(i - 1) : s[j] # s[i]}
        F[i \in 0..Len(s)] ==
            IF i = 0 THEN <<>>
            ELSE IF i \in first THEN Append(F[i - 1], s[i]) ELSE F[i - 1]
    IN F[Len(s)]

\* os.path.normpath: the empty string is the current directory "."
Normpath(p) == IF p = <<>> THEN << <<".">> >> ELSE p

\* os.path.abspath: a path that starts at "." starts at the working directory
Abspath(p) ==
    IF p # <<>> /\ p[1] = <<".">> THEN << <<"cwd">> >> \o Tail(p) ELSE p

\* os.path.join(p, name): joining the empty name gives p with a trailing
\* separator, the same path
Join(p, name) == IF name = <<>> THEN p ELSE Append(p, name)

\* os.path.isdir
IsDir(ds, p) == Abspath(p) \in ds

\* os.makedirs(path, exist_ok=True): the path and every missing parent
Makedirs(ds, p) ==
    ds \cup {SubSeq(Abspath(p), 1, k) : k \in 1..Len(Abspath(p))}

-----------------------------------------------------------------------------
(* The scenes and the inputs of the user                                   *)

CameraPool ==
    { <<"a", ":", "cam">>,
      <<"b", ":", "cam">>,
      <<"a", ":", "b", ":", "top">>,
      <<"cam", "Shape">>,
      <<"ns", ":", "persp", "Shape">>,
      <<"Shape", "Rig", ":", "cam", "Shape">> }

\* the enumerations of a scene: distinct nodes, in any order
Scenes ==
    {s \in UNION {[1..n -> CameraPool] : n \in 0..MaxCams} :
        \A i, j \in 1..Len(s) : i # j => s[i] # s[j]}

SceneNames ==
    { <<>>,
      <<"shotA", ".", "mb">>,
      <<".", "mb">> }

\* what file_path_le can hold: nothing (the working directory, once
\* normalised), the working directory by its absolute path, no directory
FilePathTexts ==
    { <<>>,
      << <<"cwd">> >>,
      << <<"nodir">> >> }

InitialDirs == { << <<"cwd">> >> }

\* the outcomes the host can give one camera: both calls succeed, cm.lookThru
\* raises, cm.playblast raises
Outcomes == {"ok", "switchFail", "captureFail"}

NoRun ==
    [outcome |-> "none", errors |-> <<>>, selected |-> <<>>, listed |-> <<>>,
     attempted |-> <<>>, switches |-> <<>>, captures |-> <<>>,
     dirsBefore |-> {}, filesBefore |-> {}]

-----------------------------------------------------------------------------
(* The methods of CameraPlayBlast                                          *)

\* display_error(message): what the host's error channel receives; camera is
\* the camera a message names, if it names one
MsgInvalidRoot ==
    [message |-> "File path doesn't exist. Please provide a valid path.",
     camera |-> <<>>]

MsgNoSceneName ==
    [message |-> "Scene name is missing. Please save the file and retry.",
     camera |-> <<>>]

MsgNoSelection ==
    [message |-> "No camera selected for the playblast. Please select a camera.",
     camera |-> <<>>]

MsgFailed(camera) ==
    [message |-> "Failed to create playblast for", camera |-> camera]

exclude_list ==
    { <<"top", "Shape">>, <<"front", "Shape">>,
      <<"side", "Shape">>, <<"persp", "Shape">> }

\* cm.ls(selection=True, type="camera"): the selected nodes that are camera
\* nodes, the nodes cm.ls(type="camera") enumerates
LsSelectionCamera(sel, cameras) ==
    SelectSeq(sel, LAMBDA n : n \in Range(cameras))

\* the path is reported as invalid, and returned all the same
validate_and_get_filepath_noreturn(text, ds) ==
    LET filepath == Normpath(text)
    IN  IF ~IsDir(ds, filepath)
        THEN [value |-> filepath, errors |-> <<MsgInvalidRoot>>]
        ELSE [value |-> filepath, errors |-> <<>>]

validate_and_get_filepath(text, ds) ==
    LET filepath == Normpath(text)
    IN  IF ~IsDir(ds, filepath)
        THEN [value |-> <<>>, errors |-> <<MsgInvalidRoot>>]
        ELSE [value |-> filepath, errors |-> <<>>]

get_scene_shot_name(name) ==
    LET shot_name == SplitDotFirst(name)
    IN  IF shot_name = <<>>
        THEN [value |-> <<>>, errors |-> <<MsgNoSceneName>>]
        ELSE [value |-> shot_name, errors |-> <<>>]

\* the path is resolved, and nothing is created
ensure_directory_nocreate(ds, path) ==
    [dirs |-> ds, value |-> Abspath(path)]

ensure_directory(ds, path) ==
    [dirs |-> Makedirs(ds, path), value |-> Abspath(path)]

get_selected_cameras(sel, cameras) ==
    LET selected_cameras == LsSelectionCamera(sel, cameras)
    IN  IF selected_cameras = <<>>
        THEN [value |-> <<>>, errors |-> <<MsgNoSelection>>]
        ELSE [value |-> selected_cameras, errors |-> <<>>]

\* the list after show_connections: cleared, then one item per camera kept
show_connections(items, cameras) ==
    LET cleared == <<>>
        kept == SelectSeq(cameras,
                          LAMBDA cam : SplitColonLast(cam) \notin exclude_list)
    IN  cleared \o [i \in 1..Len(kept) |-> ReplaceShape(kept[i])]

\* cm.select(selected_items) alone: nothing to select leaves the selection
current_selected_noclear(sel, selected_items) ==
    IF selected_items = <<>> THEN sel ELSE Dedup(selected_items)

\* the host selection after current_selected: cleared, then the items selected
current_selected(sel, selected_items) ==
    LET cleared == <<>>
    IN  Dedup(cleared \o selected_items)

\* the argument of cm.lookThru
LookThruTarget(camera) == camera

\* the file is named after the whole identifier
PlayblastPath_full(camera, playblast_dir) ==
    Join(playblast_dir, camera \o <<".mov">>)

\* the file is named after what precedes the first ":"
PlayblastPath_first(camera, playblast_dir) ==
    Join(playblast_dir,
         (IF Positions(camera, ":") = {} THEN camera
          ELSE SubSeq(camera, 1, Min(Positions(camera, ":")) - 1)) \o <<".mov">>)

\* playblast_path
PlayblastPath(camera, playblast_dir) ==
    Join(playblast_dir, SplitColonLast(camera) \o <<".mov">>)

\* cm.playblast(filename=..., forceOverwrite=True): the file at the path now
\* holds what the view shows
execute_playblast(fs, playblast_path, view) ==
    {f \in fs : f.path # playblast_path}
        \cup {[path |-> playblast_path, source |-> view]}

\* the capture is made before the view is switched
perform_playblast_late(camera, playblast_dir, outcome, view, fs) ==
    LET target == LookThruTarget(camera)
        path == PlayblastPath(camera, playblast_dir)
        shot == [source |-> camera, path |-> path, view |-> view,
                 ok |-> outcome = "ok"]
    IN  IF outcome = "captureFail"
        THEN [view |-> target, files |-> fs, raised |-> FALSE,
              switches |-> <<[target |-> target, ok |-> TRUE]>>,
              captures |-> <<shot>>, errors |-> <<MsgFailed(camera)>>]
        ELSE IF outcome = "switchFail"
        THEN [view |-> view, files |-> execute_playblast(fs, path, view),
              raised |-> TRUE,
              switches |-> <<[target |-> target, ok |-> FALSE]>>,
              captures |-> <<[shot EXCEPT !.ok = TRUE]>>, errors |-> <<>>]
        ELSE [view |-> target, files |-> execute_playblast(fs, path, view),
              raised |-> FALSE,
              switches |-> <<[target |-> target, ok |-> TRUE]>>,
              captures |-> <<shot>>, errors |-> <<>>]

\* one call of perform_playblast, the host answering with outcome
perform_playblast(camera, playblast_dir, outcome, view, fs) ==
    LET target == LookThruTarget(camera)
    IN  IF outcome = "switchFail"
        THEN \* cm.lookThru raises, outside the try
             [view |-> view, files |-> fs, raised |-> TRUE,
              switches |-> <<[target |-> target, ok |-> FALSE]>>,
              captures |-> <<>>, errors |-> <<>>]
        ELSE LET path == PlayblastPath(camera, playblast_dir)
                 shot == [source |-> camera, path |-> path, view |-> target,
                          ok |-> outcome = "ok"]
             IN  IF outcome = "captureFail"
                 THEN \* cm.playblast raises, inside the try
                      [view |-> target, files |-> fs, raised |-> FALSE,
                       switches |-> <<[target |-> target, ok |-> TRUE]>>,
                       captures |-> <<shot>>,
                       errors |-> <<MsgFailed(camera)>>]
                 ELSE [view |-> target,
                       files |-> execute_playblast(fs, path, target),
                       raised |-> FALSE,
                       switches |-> <<[target |-> target, ok |-> TRUE]>>,
                       captures |-> <<shot>>, errors |-> <<>>]

-----------------------------------------------------------------------------
(* The state machine                                                       *)

Init ==
    /\ sceneCameras \in Scenes
    /\ sceneName \in SceneNames
    /\ filePathText = <<>>
    /\ listItems = <<>>
    /\ listSel = <<>>
    /\ hostSel = <<>>
    /\ activeView = <<"persp">>
    /\ dirs = InitialDirs
    /\ files = {}
    /\ pc = "idle"
    /\ queue = <<>>
    /\ playblastDir = <<>>
    /\ run = NoRun
    /\ listShown = FALSE
    /\ panelSynced = FALSE

\* the texts of the selected rows
SelectedTexts == [k \in 1..Len(listSel) |-> listItems[listSel[k]]]

\* select_file_path_btn: the dialog gives an existing directory, or "" when
\* it is cancelled
ShowFileSelectDialog(p) ==
    /\ pc = "idle"
    /\ p = <<>> \/ p \in dirs
    /\ filePathText' = p
    /\ UNCHANGED <<sceneCameras, sceneName, listItems, listSel, hostSel,
                   activeView, dirs, files, pc, queue, playblastDir, run,
                   listShown, panelSynced>>

\* the user types a path into file_path_le
EditFilePath(p) ==
    /\ pc = "idle"
    /\ filePathText' = p
    /\ UNCHANGED <<sceneCameras, sceneName, listItems, listSel, hostSel,
                   activeView, dirs, files, pc, queue, playblastDir, run,
                   listShown, panelSynced>>

\* show_btn
ShowConnections ==
    /\ pc = "idle"
    /\ listItems' = show_connections(listItems, sceneCameras)
    /\ listSel' = <<>>
    /\ hostSel' = <<>>
    /\ listShown' = TRUE
    /\ panelSynced' = TRUE
    /\ UNCHANGED <<sceneCameras, sceneName, filePathText, activeView, dirs,
                   files, pc, queue, playblastDir, run>>

\* a click on row i of the list (MultiSelection: the click toggles the row),
\* and the itemSelectionChanged handler
ItemSelectionChanged(i) ==
    /\ pc = "idle"
    /\ i \in 1..Len(listItems)
    /\ LET sel == IF i \in Range(listSel)
                  THEN SelectSeq(listSel, LAMBDA k : k # i)
                  ELSE Append(listSel, i)
           texts == [k \in 1..Len(sel) |-> listItems[sel[k]]]
       IN  /\ listSel' = sel
           /\ hostSel' = current_selected(hostSel, texts)
    /\ panelSynced' = TRUE
    /\ UNCHANGED <<sceneCameras, sceneName, filePathText, listItems,
                   activeView, dirs, files, pc, queue, playblastDir, run,
                   listShown>>

\* the user selects a camera node in the host, outside the panel
HostSelect(n) ==
    /\ pc = "idle"
    /\ n \in Range(sceneCameras)
    /\ hostSel # <<n>>
    /\ hostSel' = <<n>>
    /\ panelSynced' = FALSE
    /\ UNCHANGED <<sceneCameras, sceneName, filePathText, listItems, listSel,
                   activeView, dirs, files, pc, queue, playblastDir, run,
                   listShown>>

\* playblast_btn: playblast up to its for loop
Playblast ==
    /\ pc = "idle"
    /\ LET v == validate_and_get_filepath(filePathText, dirs)
           s == get_scene_shot_name(sceneName)
           e == ensure_directory(dirs, Join(v.value, s.value))
           g == get_selected_cameras(hostSel, sceneCameras)
           r == [NoRun EXCEPT !.listed = SelectedTexts,
                              !.dirsBefore = dirs, !.filesBefore = files]
       IN  IF v.value = <<>>
           THEN /\ run' = [r EXCEPT !.errors = v.errors,
                                    !.outcome = "returned"]
                /\ pc' = "ended"
                /\ UNCHANGED <<dirs, queue, playblastDir>>
           ELSE IF s.value = <<>>
           THEN /\ run' = [r EXCEPT !.errors = v.errors \o s.errors,
                                    !.outcome = "returned"]
                /\ pc' = "ended"
                /\ UNCHANGED <<dirs, queue, playblastDir>>
           ELSE IF g.value = <<>>
           THEN /\ run' = [r EXCEPT !.errors = v.errors \o s.errors \o g.errors,
                                    !.outcome = "returned"]
                /\ pc' = "ended"
                /\ dirs' = e.dirs
                /\ UNCHANGED <<queue, playblastDir>>
           ELSE /\ run' = [r EXCEPT !.errors = v.errors \o s.errors \o g.errors,
                                    !.selected = g.value]
                /\ pc' = "loop"
                /\ dirs' = e.dirs
                /\ queue' = g.value
                /\ playblastDir' = e.value
    /\ UNCHANGED <<sceneCameras, sceneName, filePathText, listItems, listSel,
                   hostSel, activeView, files, listShown, panelSynced>>

\* one turn of the for loop of playblast
PerformPlayblast(outcome) ==
    /\ pc = "loop"
    /\ queue # <<>>
    /\ LET r == perform_playblast(Head(queue), playblastDir, outcome,
                                  activeView, files)
           done == r.raised \/ Tail(queue) = <<>>
       IN  /\ activeView' = r.view
           /\ files' = r.files
           /\ queue' = IF r.raised THEN <<>> ELSE Tail(queue)
           /\ pc' = IF done THEN "ended" ELSE "loop"
           /\ run' = [run EXCEPT
                        !.attempted = Append(@, Head(queue)),
                        !.switches = @ \o r.switches,
                        !.captures = @ \o r.captures,
                        !.errors = @ \o r.errors,
                        !.outcome = IF r.raised THEN "raised"
                                    ELSE IF done THEN "returned" ELSE @]
    /\ UNCHANGED <<sceneCameras, sceneName, filePathText, listItems, listSel,
                   hostSel, dirs, playblastDir, listShown, panelSynced>>

\* the slot is over: control is back in the event loop
ReturnToEventLoop ==
    /\ pc = "ended"
    /\ pc' = "idle"
    /\ run' = NoRun
    /\ queue' = <<>>
    /\ playblastDir' = <<>>
    /\ UNCHANGED <<sceneCameras, sceneName, filePathText, listItems, listSel,
                   hostSel, activeView, dirs, files, listShown, panelSynced>>

Next ==
    \/ \E p \in FilePathTexts : EditFilePath(p)
    \/ \E p \in InitialDirs \cup {<<>>} : ShowFileSelectDialog(p)
    \/ ShowConnections
    \/ \E i \in 1..MaxCams : ItemSelectionChanged(i)
    \/ \E n \in CameraPool : HostSelect(n)
    \/ Playblast
    \/ \E outcome \in Outcomes : PerformPlayblast(outcome)
    \/ ReturnToEventLoop

Spec == Init /\ [][Next]_vars

-----------------------------------------------------------------------------
(* What a run was given, read off the state: no handler of the panel runs  *)
(* while playblast runs, so the inputs are those of its invocation         *)

InRun == pc # "idle"

Ended == pc = "ended"

RunRootOK == IsDir(run.dirsBefore, Normpath(filePathText))

RunShot == SplitDotFirst(sceneName)

RunCameras == LsSelectionCamera(hostSel, sceneCameras)

RunShotDir == Abspath(Join(Normpath(filePathText), RunShot))

Halted ==
    /\ pc = "ended"
    /\ run.outcome = "returned"
    /\ run.attempted = <<>>
    /\ run.switches = <<>>
    /\ run.captures = <<>>

\* s without everything up to and including its last ":"
DropNamespace(s) ==
    LET k == CHOOSE k \in 0..Len(s) :
                 /\ \A i \in (k + 1)..Len(s) : s[i] # ":"
                 /\ k = 0 \/ s[k] = ":"
    IN  SubSeq(s, k + 1, Len(s))

\* s without its trailing shape suffix
DropShapeSuffix(s) ==
    IF s # <<>> /\ s[Len(s)] = "Shape" THEN SubSeq(s, 1, Len(s) - 1) ELSE s

ReservedCameras ==
    { <<"top", "Shape">>, <<"front", "Shape">>,
      <<"side", "Shape">>, <<"persp", "Shape">> }

\* the list a refresh is to give for an enumeration
ReferenceList(cameras) ==
    LET kept == SelectSeq(cameras,
                          LAMBDA n : DropNamespace(n) \notin ReservedCameras)
    IN  [i \in 1..Len(kept) |-> DropShapeSuffix(kept[i])]

-----------------------------------------------------------------------------
(* The claims                                                              *)

\* C1: a run that reaches its loop attempts every selected source, once, in
\* the order given, whatever fails on the way.
C1_EverySourceAttempted ==
    (Ended /\ run.selected # <<>>) => run.attempted = run.selected

\* C2: a run that fails a check reports that one error and nothing else, and
\* makes no view switch and no capture; the checks are made in the order
\* root, scene name, selection, and the first that fails is the one reported.
C2_FatalReportedOnce ==
    InRun =>
        /\ ~RunRootOK => (run.errors = <<MsgInvalidRoot>> /\ Halted)
        /\ (RunRootOK /\ RunShot = <<>>) =>
               (run.errors = <<MsgNoSceneName>> /\ Halted)
        /\ (RunRootOK /\ RunShot # <<>> /\ RunCameras = <<>>) =>
               (run.errors = <<MsgNoSelection>> /\ Halted)
        /\ (Range(run.errors)
                \cap {MsgInvalidRoot, MsgNoSceneName, MsgNoSelection} # {}) =>
               (Len(run.errors) = 1 /\ Halted)

C2_Witness ==
    /\ Ended
    /\ ~RunRootOK
    /\ RunShot = <<>>
    /\ RunCameras = <<>>
    /\ run.errors = <<MsgInvalidRoot>>

\* C3: when the root is an existing directory and the scene has a saved
\* name, the shot directory {root}/{shot} exists after the run, also when no
\* camera is selected, and it is the only directory the run adds; in every
\* other case, and whenever the root check or the scene name check fails,
\* the run leaves the directories and the files as they were.  The root is
\* never created.
C3_ShotDirIffChecksPass ==
    InRun =>
        /\ IF RunRootOK /\ sceneName # <<>>
           THEN /\ RunShotDir \in dirs
                /\ dirs = run.dirsBefore \cup {RunShotDir}
           ELSE /\ dirs = run.dirsBefore
                /\ files = run.filesBefore
        /\ (~RunRootOK \/ RunShot = <<>>) =>
               (dirs = run.dirsBefore /\ files = run.filesBefore)
        /\ ~RunRootOK => Abspath(Normpath(filePathText)) \notin dirs

C3_Witness ==
    /\ Ended
    /\ RunRootOK
    /\ RunShot # <<>>
    /\ RunCameras = <<>>
    /\ RunShotDir \notin run.dirsBefore
    /\ RunShotDir \in dirs

\* C4: the cameras of a run are the sources selected in the list when the
\* run is invoked.
C4_ListSelectionAuthoritative ==
    (InRun /\ RunRootOK /\ RunShot # <<>>) =>
        Range(run.selected) = Range(run.listed)

\* C5: as long as the host selection is changed by the panel only, it is the
\* set of identifiers selected in the list; an empty list selection makes it
\* empty.
C5_SelectionSynced ==
    panelSynced => Range(hostSel) = Range(SelectedTexts)

C5_Witness ==
    /\ panelSynced
    /\ Len(listSel) = 2
    /\ Len(hostSel) = 2

\* C6: the file of a capture is {output_dir}/{display_identifier}.mov, the
\* display identifier being the source without its namespace, and the view
\* switch is given the source whole.
C6_PathStrippedSwitchFull ==
    InRun =>
        /\ \A i \in 1..Len(run.switches) :
               run.switches[i].target = run.selected[i]
        /\ \A i \in 1..Len(run.captures) :
               /\ run.captures[i].source = run.selected[i]
               /\ run.captures[i].path =
                      Join(RunShotDir,
                           DropNamespace(run.selected[i]) \o <<".mov">>)

C6_Witness ==
    /\ Ended
    /\ \E i \in 1..Len(run.captures) :
           /\ Cardinality(Positions(run.captures[i].source, ":")) = 2
           /\ run.captures[i].ok
           /\ run.switches[i].target = run.captures[i].source

\* C7: after a refresh the list is the reference list of the enumeration.
C7_ListIsReference ==
    listShown => listItems = ReferenceList(sceneCameras)

\* C8: a run that passes the three checks returns normally, and every source
\* that failed has its own error report.
C8_RunReturnsNormally ==
    (Ended /\ run.selected # <<>>) =>
        /\ run.outcome = "returned"
        /\ \A i \in 1..Len(run.captures) :
               ~run.captures[i].ok =>
                   MsgFailed(run.captures[i].source) \in Range(run.errors)

\* C9: a capture is made with the view on the source being processed, and
\* once a run has switched the view, the view is the last source it switched
\* to; the view of before the run is not restored.
C9_ViewIsSourceAtCapture ==
    InRun =>
        /\ \A i \in 1..Len(run.captures) :
               run.captures[i].view = run.selected[i]
        /\ LET done == {i \in 1..Len(run.switches) : run.switches[i].ok}
           IN  done # {} => activeView = run.selected[Max(done)]

C9_Witness ==
    /\ Ended
    /\ Len(run.captures) = 2
    /\ activeView = run.selected[2]
    /\ activeView # <<"persp">>

====
